---- MODULE Spec2Model ----
(***************************************************************************)
(* Model of src/audit_logger.py (class AuditLogger) and of the callers in  *)
(* src/main.py that submit events to it.                                   *)
(*                                                                         *)
(* Python values are tagged records [tag, v] whose v is always a sequence: *)
(*   none   <<>>                     str / num   <<text>>                  *)
(*   list   <<value, ...>>           dict        << <<key, value>>, ... >> *)
(*   opaque <<name>>  an object json cannot serialise (bytes, set, ...)    *)
(* A dict keeps its insertion order, as a Python dict does, so that two    *)
(* equal dicts built in different orders are different model values.       *)
(***************************************************************************)
EXTENDS Integers, Sequences, FiniteSets, TLC

VARIABLES
    phase,          \* "new" before __init__ has run, "ready" after it
    db_config,      \* self.db_config: "none" (None), "empty" ({}), "set"
    db_connection,  \* self.db_connection: "none" (None), "open", "closed"
    db_available,   \* self.db_available: "unset" (attribute missing), "true", "false"
    txn,            \* transaction state of the connection: "idle", "aborted"
    file,           \* lines the FileHandler of logger 'audit_logger' wrote
    store,          \* rows committed to table audit_logs
    uuid_seq,       \* number of uuid4() values drawn so far
    connects,       \* number of psycopg2.connect calls made
    inserts,        \* number of INSERT statements attempted (cursor.execute)
    setup_result,   \* history: how _setup_database ended, "none" if it never ran
    calls,          \* history: one observation per log_event call
    closed,         \* history: close() has returned at least once
    threads,        \* concurrent callers: the position of each inside log_event
    pending,        \* INSERTs executed on the connection and not yet committed
    instances,      \* the AuditLogger objects of the process, in construction order
    handlers,       \* handlers of logging.getLogger('audit_logger'), as file paths
    files           \* the lines of each log file, by path

\* the state of one logger used by one caller at a time
core == <<phase, db_config, db_connection, db_available, txn, file, store,
          uuid_seq, connects, inserts, setup_result, calls, closed>>

\* the attributes set by __init__ and close, which log_event only reads
attrs == <<phase, db_config, db_connection, db_available, connects, setup_result, closed>>

\* the state used only when several callers or several loggers are modelled
aux == <<threads, pending, instances, handlers, files>>

vars == <<phase, db_config, db_connection, db_available, txn, file, store,
          uuid_seq, connects, inserts, setup_result, calls, closed,
          threads, pending, instances, handlers, files>>

-----------------------------------------------------------------------------
(* Bounds *)

MaxCalls == 2

\* threads calling log_event on one instance at the same time
MaxThreads == 2

\* AuditLogger instances constructed in one process
MaxInstances == 2

-----------------------------------------------------------------------------
(* Python values *)

NoneV == [tag |-> "none", v |-> <<>>]
Str(s) == [tag |-> "str", v |-> <<s>>]
Num(n) == [tag |-> "num", v |-> <<n>>]
List(xs) == [tag |-> "list", v |-> xs]
Dict(items) == [tag |-> "dict", v |-> items]
Opaque(n) == [tag |-> "opaque", v |-> <<n>>]

REDACTED == Str("[REDACTED]")

Keys(d) == {d.v[i][1] : i \in 1..Len(d.v)}

HasKey(d, k) == d.tag = "dict" /\ k \in Keys(d)

\* d[k] for a key that is present
Lookup(d, k) == d.v[CHOOSE i \in 1..Len(d.v) : d.v[i][1] = k][2]

\* dict.get(k, default)
Get(d, k, default) == IF HasKey(d, k) THEN Lookup(d, k) ELSE default

\* Python's == on values: dicts compare by key set and value per key,
\* whatever the insertion order; lists compare element by element.
RECURSIVE PyEq(_, _)
PyEq(a, b) ==
    IF a.tag # b.tag THEN FALSE
    ELSE IF a.tag = "dict"
         THEN /\ Keys(a) = Keys(b)
              /\ \A k \in Keys(a) : PyEq(Lookup(a, k), Lookup(b, k))
    ELSE IF a.tag = "list"
         THEN /\ Len(a.v) = Len(b.v)
              /\ \A i \in 1..Len(a.v) : PyEq(a.v[i], b.v[i])
    ELSE a.v = b.v

\* bool(x): None, empty containers and the empty string are falsy
Truthy(x) ==
    IF x.tag = "none" THEN FALSE
    ELSE IF x.tag \in {"dict", "list"} THEN Len(x.v) > 0
    ELSE IF x.tag = "str" THEN x.v[1] # ""
    ELSE IF x.tag = "num" THEN x.v[1] # "0"
    ELSE TRUE

-----------------------------------------------------------------------------
(* json.dumps *)

\* every key the model uses, in lexicographic (code point) order
KeyOrder == <<"a", "b", "data", "email", "format", "framework", "name", "o",
              "password", "precision", "profile", "request_id", "size_kb",
              "user_email", "username">>

KeyRank(k) == CHOOSE i \in 1..Len(KeyOrder) : KeyOrder[i] = k

\* the items of a dict in ascending key order (sort_keys=True)
RECURSIVE SortItems(_)
SortItems(items) ==
    IF Len(items) = 0 THEN <<>>
    ELSE LET m == CHOOSE i \in 1..Len(items) :
                      \A j \in 1..Len(items) : KeyRank(items[i][1]) <= KeyRank(items[j][1])
             rest == [j \in 1..(Len(items) - 1) |-> IF j < m THEN items[j] ELSE items[j + 1]]
         IN  <<items[m]>> \o SortItems(rest)

\* json.dumps raises TypeError on an object it cannot serialise, at any depth
RECURSIVE Serialisable(_)
Serialisable(x) ==
    IF x.tag = "opaque" THEN FALSE
    ELSE IF x.tag = "dict" THEN \A i \in 1..Len(x.v) : Serialisable(x.v[i][2])
    ELSE IF x.tag = "list" THEN \A i \in 1..Len(x.v) : Serialisable(x.v[i])
    ELSE TRUE

\* the text json.dumps(x, sort_keys=sorted) produces, as a sequence of tokens
RECURSIVE Dumps(_, _), DumpsItems(_, _), DumpsElems(_, _)
Dumps(x, sorted) ==
    IF x.tag = "none" THEN <<"null">>
    ELSE IF x.tag = "str" THEN <<"\"" \o x.v[1] \o "\"">>
    ELSE IF x.tag = "num" THEN <<x.v[1]>>
    ELSE IF x.tag = "list" THEN <<"[">> \o DumpsElems(x.v, sorted) \o <<"]">>
    ELSE <<"{">> \o DumpsItems(IF sorted THEN SortItems(x.v) ELSE x.v, sorted) \o <<"}">>
DumpsItems(items, sorted) ==
    IF Len(items) = 0 THEN <<>>
    ELSE <<"\"" \o items[1][1] \o "\"", ":">> \o Dumps(items[1][2], sorted)
         \o (IF Len(items) > 1 THEN <<",">> ELSE <<>>)
         \o DumpsItems(Tail(items), sorted)
DumpsElems(xs, sorted) ==
    IF Len(xs) = 0 THEN <<>>
    ELSE Dumps(xs[1], sorted)
         \o (IF Len(xs) > 1 THEN <<",">> ELSE <<>>)
         \o DumpsElems(Tail(xs), sorted)

-----------------------------------------------------------------------------
(* AuditLogger._hash_sensitive_data *)

\* hashlib.sha256(b).hexdigest(), taken as injective on the bytes it is given
Sha256(bytes) == [tag |-> "sha256", v |-> bytes]

\* `json.dumps(data, sort_keys=True) if isinstance(data, (dict, list)) else str`
\* The else branch yields the type `str` itself, not str(data).
HashDataStrUnsorted(data) ==
    IF data.tag \in {"dict", "list"} THEN Dumps(data, FALSE) ELSE <<"<class 'str'>">>
HashDataStr(data) ==
    IF data.tag \in {"dict", "list"} THEN Dumps(data, TRUE) ELSE <<"<class 'str'>">>

\* data_str.encode('utf-8'): on a str it is its text; on the type `str` it
\* is the unbound method applied to the argument, 'utf-8'.encode() = b'utf-8'.
Encode(data_str) == IF data_str = <<"<class 'str'>">> THEN <<"utf-8">> ELSE data_str

HashRaises(data) == data.tag \in {"dict", "list"} /\ ~Serialisable(data)

_hash_sensitive_data(data) ==
    IF data.tag = "none" THEN NoneV ELSE Sha256(Encode(HashDataStr(data)))

-----------------------------------------------------------------------------
(* AuditLogger._redact_pii *)

pii_fields == {"email", "phone", "address", "name", "ssn", "credit_card", "password"}

\* data.copy() needs a dict or a list; on a list `field in data` looks for an
\* element equal to the field name and the item assignment then raises.
RedactRaises(data) ==
    IF data.tag = "dict" THEN FALSE
    ELSE IF data.tag = "list"
         THEN \E i \in 1..Len(data.v) : data.v[i].tag = "str" /\ data.v[i].v[1] \in pii_fields
    ELSE TRUE

RedactNothing(data) == data
_redact_pii(data) ==
    IF data.tag # "dict" THEN data
    ELSE Dict([i \in 1..Len(data.v) |->
                 IF data.v[i][1] \in pii_fields
                 THEN <<data.v[i][1], REDACTED>>
                 ELSE data.v[i]])

-----------------------------------------------------------------------------
(* Events submitted by callers *)

Absent == <<>>      \* no such key in `data`
Field(k, x) == IF x = Absent THEN <<>> ELSE << <<k, x[1]>> >>

\* a `data` dict holding the given optional fields (each <<value>> or Absent)
Data(metadata, input, output) ==
    Dict(Field("metadata", metadata) \o Field("input", input) \o Field("output", output))

ALICE_EMAIL == Str("alice@company.com")

\* audit_data of MockGPUInferenceService.load_model
LoadModelData ==
    Dict(<< <<"model_name", Str("resnet-50")>>,
            <<"model_size_gb", Num("2.5")>>,
            <<"load_time_seconds", Num("0.5")>>,
            <<"gpu_memory_required", Num("4096")>>,
            <<"metadata", Dict(<< <<"framework", Str("TensorRT")>>,
                                  <<"precision", Str("FP16")>>,
                                  <<"user_email", ALICE_EMAIL>> >>)>> >>)

\* start_audit_data of MockGPUInferenceService.run_inference
RunInferenceStartData ==
    Dict(<< <<"inference_id", Str("inf_1_1000")>>,
            <<"model_name", Str("resnet-50")>>,
            <<"input", Dict(<< <<"data", Str("sample_input_0")>>,
                               <<"format", Str("image")>>,
                               <<"size_kb", Num("100")>> >>)>>,
            <<"batch_size", Num("1")>>,
            <<"metadata", Dict(<< <<"user_email", ALICE_EMAIL>>,
                                  <<"request_id", Str("req_10000")>> >>)>> >>)

\* metadata mappings around the PII set
MetaAuth == Dict(<< <<"username", Str("alice")>>, <<"password", Str("x")>> >>)
Metas == {
    Dict(<<>>),
    MetaAuth,
    Dict(<< <<"password", REDACTED>> >>),
    Dict(<< <<"name", Str("bob")>>, <<"email", Str("bob@x.org")>> >>),
    Dict(<< <<"profile", Dict(<< <<"email", Str("bob@x.org")>> >>)>> >>),
    Dict(<< <<"email", Opaque("bytes")>> >>),
    Dict(<< <<"username", Opaque("bytes")>> >>),
    NoneV }

\* raw payloads to be hashed: scalars, mappings in two key orders, nesting
AB == Dict(<< <<"a", Num("1")>>, <<"b", Num("2")>> >>)
BA == Dict(<< <<"b", Num("2")>>, <<"a", Num("1")>> >>)
Payloads == {
    NoneV,
    Str("img1"),
    Str("img2"),
    Num("7"),
    AB,
    BA,
    Dict(<< <<"o", AB>>, <<"name", Str("bob")>> >>),
    Dict(<< <<"name", Str("bob")>>, <<"o", BA>> >>),
    List(<<Str("img1"), Str("img2")>>),
    List(<<Str("img2"), Str("img1")>>),
    Dict(<< <<"a", Opaque("set")>> >>) }

\* the submissions log_event is called with: <<event_type, data, user_id>>
Submissions ==
    {<<Str("user_authentication"), Data(<<m>>, Absent, Absent), Str("alice")>> : m \in Metas}
    \cup {<<Str("inference_start"), Data(Absent, <<p>>, Absent), NoneV>> : p \in Payloads}
    \cup {<<Str("inference_complete"), Data(Absent, Absent, <<p>>), NoneV>> : p \in {Str("cat"), AB}}
    \cup {<<Str("model_load"), LoadModelData, Str("alice")>>,
          <<Str("inference_start"), RunInferenceStartData, Str("alice")>>,
          <<Str("gpu_release"), Data(Absent, Absent, Absent), Str("alice")>>,
          <<Str("gpu_release"), NoneV, Str("alice")>>,
          <<Opaque("bytes"), Data(Absent, Absent, Absent), NoneV>>}

-----------------------------------------------------------------------------
(* The file sink: logging.FileHandler with '%(asctime)s - %(levelname)s - %(message)s' *)

\* one formatted line; a line whose message is json.dumps(log_entry) carries
\* the entry it parses back to, any other line carries its text
RecordLine(entry) == [level |-> "INFO", kind |-> "record", text |-> "", entry |-> <<entry>>]
DiagLine(level, text) == [level |-> level, kind |-> "diag", text |-> text, entry |-> <<>>]

\* the log files of the process
Paths == {"a.log", "b.log"}

\* self.logger.info / warning / error seen by one FileHandler: every message
\* of level INFO or above is a line of its file
Emit(lines, line) == Append(lines, line)

-----------------------------------------------------------------------------
(* AuditLogger.log_event: normalisation *)

\* `pii_redacted = metadata != redacted_metadata`
PiiRedactedByKey(metadata, redacted_metadata) == \E k \in pii_fields : HasKey(metadata, k)
PiiRedacted(metadata, redacted_metadata) == ~PyEq(metadata, redacted_metadata)

\* log_entry of lines 120-136; log_id and timestamp come from the counter
LogEntry(id, event_type, data, user_id) ==
    LET metadata == Get(data, "metadata", Dict(<<>>))
        redacted_metadata == _redact_pii(metadata)
    IN  [log_id        |-> id,
         timestamp     |-> id,
         event_type    |-> event_type,
         user_id       |-> user_id,
         inference_id  |-> Get(data, "inference_id", NoneV),
         model_name    |-> Get(data, "model_name", NoneV),
         input_hash    |-> _hash_sensitive_data(Get(data, "input", NoneV)),
         output_hash   |-> _hash_sensitive_data(Get(data, "output", NoneV)),
         status        |-> Get(data, "status", NoneV),
         duration_ms   |-> Get(data, "duration_ms", NoneV),
         gpu_usage     |-> Get(data, "gpu_usage", NoneV),
         ip_address    |-> Get(data, "ip_address", NoneV),
         user_agent    |-> Get(data, "user_agent", NoneV),
         metadata      |-> redacted_metadata,
         pii_redacted  |-> PiiRedacted(metadata, redacted_metadata)]

\* json.dumps(log_entry) of line 139 succeeds iff every field serialises
EntrySerialisable(e) ==
    \A x \in {e.event_type, e.user_id, e.inference_id, e.model_name, e.status,
              e.duration_ms, e.gpu_usage, e.ip_address, e.user_agent, e.metadata} :
        Serialisable(x)

\* the exception lines 111-139 raise before anything is written, "none" if none
NormaliseExc(event_type, data, user_id) ==
    IF data.tag # "dict" THEN "AttributeError"
    ELSE IF RedactRaises(Get(data, "metadata", Dict(<<>>)))
         THEN (IF Get(data, "metadata", Dict(<<>>)).tag = "list" THEN "TypeError" ELSE "AttributeError")
    ELSE IF HashRaises(Get(data, "input", NoneV)) \/ HashRaises(Get(data, "output", NoneV))
         THEN "TypeError"
    ELSE IF ~EntrySerialisable(LogEntry(0, event_type, data, user_id)) THEN "TypeError"
    ELSE "none"

\* lines 111-136 for every submission, computed once: the exception raised
\* (if any) and the entry built, with log_id and timestamp still to be drawn
Normalised ==
    [s \in Submissions |->
        LET exc == NormaliseExc(s[1], s[2], s[3])
        IN  [exc |-> exc,
             entry |-> IF exc = "none" THEN <<LogEntry(0, s[1], s[2], s[3])>> ELSE <<>>]]

-----------------------------------------------------------------------------
(* AuditLogger._store_in_database *)

\* what the database makes of one INSERT; chosen by the environment
Outcomes == {"ok", "client_error", "server_error"}

\* the answers the database can give in the state the call finds: it is asked
\* only when the statement is sent, and rejects any statement sent in an
\* aborted transaction
Answers(sent, t) ==
    IF ~sent THEN {"unasked"}
    ELSE IF t = "aborted" THEN {"server_error"}
    ELSE Outcomes

\* `json.dumps(x) if x else None` for the two JSONB columns
JsonParam(x) == IF Truthy(x) THEN x ELSE NoneV

\* the parameter tuple of lines 161-177
Row(e) == [e EXCEPT !.gpu_usage = JsonParam(e.gpu_usage), !.metadata = JsonParam(e.metadata)]

\* `except Exception` of line 182
StoreCatches(exc) == TRUE

\* lines 150-183 run on connection state conn/t with the database answering
\* outcome: the exception raised inside the try, whether execute was called,
\* the row committed and the transaction state left behind.  A statement sent
\* in an aborted transaction is rejected; nothing here rolls back.
StoreInDatabase(e, conn, t, outcome) ==
    IF conn = "closed"
    THEN [exc |-> "InterfaceError", executed |-> FALSE, rows |-> <<>>, txn |-> t]
    ELSE IF t = "aborted" \/ outcome = "server_error"
    THEN [exc |-> "DatabaseError", executed |-> TRUE, rows |-> <<>>, txn |-> "aborted"]
    ELSE IF outcome = "client_error"
    THEN [exc |-> "ProgrammingError", executed |-> TRUE, rows |-> <<>>, txn |-> t]
    ELSE [exc |-> "none", executed |-> TRUE, rows |-> <<Row(e)>>, txn |-> "idle"]

-----------------------------------------------------------------------------
(* AuditLogger.__init__ and _setup_database *)

Configs == {"none", "empty", "set"}
SetupOutcomes == {"ok", "connect_fail", "schema_fail"}

Init ==
    /\ phase = "new"
    /\ db_config = "none"
    /\ db_connection = "none"
    /\ db_available = "unset"
    /\ txn = "idle"
    /\ file = <<>>
    /\ store = <<>>
    /\ uuid_seq = 0
    /\ connects = 0
    /\ inserts = 0
    /\ setup_result = "none"
    /\ calls = <<>>
    /\ closed = FALSE
    /\ threads = <<>>
    /\ pending = <<>>
    /\ instances = <<>>
    /\ handlers = <<>>
    /\ files = [p \in Paths |-> <<>>]

\* `if db_config:` is false for None and for an empty dict
Construct(cfg, setup) ==
    /\ phase = "new"
    /\ phase' = "ready"
    /\ db_config' = cfg
    /\ IF cfg # "set"
       THEN /\ UNCHANGED <<db_connection, db_available, txn, file, connects, setup_result>>
       ELSE /\ connects' = connects + 1
            /\ setup_result' = setup
            /\ db_connection' = IF setup = "connect_fail" THEN "none" ELSE "open"
            /\ txn' = IF setup = "schema_fail" THEN "aborted" ELSE "idle"
            /\ db_available' = IF setup = "ok" THEN "true" ELSE "false"
            /\ file' = IF setup = "ok"
                       THEN Emit(file, DiagLine("INFO", "Database setup complete"))
                       ELSE Emit(file, DiagLine("WARNING",
                                "Database connection failed, using file logging only"))
    /\ UNCHANGED <<store, uuid_seq, inserts, calls, closed>>
    /\ UNCHANGED aux

-----------------------------------------------------------------------------
(* AuditLogger.log_event *)

\* `if self.db_available and self.db_connection:` of line 142
StoreGuardConnectionOnly(avail, conn) == conn # "none"
StoreGuard(avail, conn) == avail = "true" /\ conn # "none"

\* `except Exception` of line 145
LogEventCatchesStoreErrorsOnly(exc) == exc \in {"InterfaceError", "DatabaseError", "ProgrammingError"}
LogEventCatches(exc) == TRUE

\* whether this call gets as far as cursor.execute
WillSend(s) ==
    /\ Normalised[s].exc = "none"
    /\ db_available # "unset"
    /\ StoreGuard(db_available, db_connection)
    /\ db_connection # "closed"

\* the entry with the log_id and timestamp drawn for this call
Stamp(entry, id) ==
    IF entry = <<>> THEN <<>> ELSE <<[entry[1] EXCEPT !.log_id = id, !.timestamp = id]>>

\* lines 141-143: the store is tried only when the file write was reached and
\* the guard, which reads self.db_available first, lets the call through
StoreStepSkipAfterFailure(entry, avail, conn, t, outcome) ==
    IF entry # <<>> /\ avail # "unset" /\ StoreGuard(avail, conn) /\ t # "aborted"
    THEN StoreInDatabase(entry[1], conn, t, outcome)
    ELSE [exc |-> "none", executed |-> FALSE, rows |-> <<>>, txn |-> t]
StoreStep(entry, avail, conn, t, outcome) ==
    IF entry # <<>> /\ avail # "unset" /\ StoreGuard(avail, conn)
    THEN StoreInDatabase(entry[1], conn, t, outcome)
    ELSE [exc |-> "none", executed |-> FALSE, rows |-> <<>>, txn |-> t]

\* the exception that reaches the handler of line 145, "none" if none does
Reaching(early, avail, res) ==
    IF early # "none" THEN early
    ELSE IF avail = "unset" THEN "AttributeError"
    ELSE IF res.exc # "none" /\ ~StoreCatches(res.exc) THEN res.exc
    ELSE "none"

\* what one call did: the entry it built, the result of the store step, the
\* exception that reached line 145, whether it went on to the caller, and
\* the messages handed to self.logger, in order
Outcome(entry, res, exc) ==
    [entry  |-> entry,
     res    |-> res,
     exc    |-> exc,
     raised |-> exc # "none" /\ ~LogEventCatches(exc),
     emits  |-> (IF entry # <<>> THEN <<RecordLine(entry[1])>> ELSE <<>>)
                \o (IF res.exc # "none" /\ StoreCatches(res.exc)
                    THEN <<DiagLine("ERROR", "Database storage failed")>> ELSE <<>>)
                \o (IF exc # "none" /\ LogEventCatches(exc)
                    THEN <<DiagLine("ERROR", "Failed to log event")>> ELSE <<>>)]

AfterStore(entry, early, avail, res) == Outcome(entry, res, Reaching(early, avail, res))

AfterNormalise(entry, early, avail, conn, t, outcome) ==
    AfterStore(entry, early, avail, StoreStep(entry, avail, conn, t, outcome))

\* log_event on normalisation result n in logger state (avail, conn, t)
LogEventResult(n, id, avail, conn, t, outcome) ==
    AfterNormalise(Stamp(n.entry, id), n.exc, avail, conn, t, outcome)

RECURSIVE EmitAll(_, _)
EmitAll(lines, msgs) ==
    IF Len(msgs) = 0 THEN lines ELSE EmitAll(Emit(lines, Head(msgs)), Tail(msgs))

\* the effect of a call with result r on the sinks and on the history
Record(s, r) ==
    /\ uuid_seq' = uuid_seq + 1
    /\ file' = EmitAll(file, r.emits)
    /\ store' = store \o r.res.rows
    /\ txn' = r.res.txn
    /\ inserts' = IF r.res.executed THEN inserts + 1 ELSE inserts
    /\ calls' = Append(calls,
          [event_type |-> s[1], data |-> s[2], user_id |-> s[3],
           raised    |-> r.raised,
           exc       |-> r.exc,
           conn      |-> db_connection,
           store_exc |-> r.res.exc,
           insert    |-> r.res.executed,
           entry     |-> r.entry,
           lines     |-> Len(r.emits)])

LogEvent(s, outcome) ==
    /\ phase = "ready"
    /\ Len(calls) < MaxCalls
    /\ Record(s, LogEventResult(Normalised[s], uuid_seq + 1, db_available,
                                db_connection, txn, outcome))
    /\ UNCHANGED <<phase, db_config, db_connection, db_available, connects,
                   setup_result, closed>>
    /\ UNCHANGED aux

-----------------------------------------------------------------------------
(* AuditLogger.close *)

\* `if self.db_connection: self.db_connection.close()`; closing a closed
\* connection does nothing, and the file handler is left as it is
CloseIfAvailable ==
    /\ phase = "ready"
    /\ closed' = TRUE
    /\ db_connection' = IF db_available = "true" /\ db_connection # "none"
                        THEN "closed" ELSE db_connection
    /\ UNCHANGED <<phase, db_config, db_available, txn, file, store, uuid_seq,
                   connects, inserts, setup_result, calls>>
    /\ UNCHANGED aux
Close ==
    /\ phase = "ready"
    /\ closed' = TRUE
    /\ db_connection' = IF db_connection # "none" THEN "closed" ELSE db_connection
    /\ UNCHANGED <<phase, db_config, db_available, txn, file, store, uuid_seq,
                   connects, inserts, setup_result, calls>>
    /\ UNCHANGED aux

-----------------------------------------------------------------------------

Next ==
    \/ \E cfg \in Configs, setup \in SetupOutcomes : Construct(cfg, setup)
    \/ \E s \in Submissions :
          \E outcome \in Answers(WillSend(s), txn) : LogEvent(s, outcome)
    \/ Close

Spec == Init /\ [][Next]_vars

-----------------------------------------------------------------------------
(* Several threads calling log_event on one instance.  A call is followed
   through the points where it touches what the threads share: the uuid
   draw, the logger's handler, the attributes read by the guard, and the
   connection at cursor.execute and at commit.  psycopg2 serialises the
   single calls made on a shared connection, nothing in AuditLogger
   serialises the execute-commit pair. *)

\* the submissions the threads pick from: one that builds an entry, one that
\* raises before the file write
ThreadSubmissions ==
    {<<Str("user_authentication"), Data(<<MetaAuth>>, Absent, Absent), Str("alice")>>,
     <<Str("gpu_release"), NoneV, Str("alice")>>}

\* lines 111-136 done by a thread that drew `id`: n is the normalisation result
NewThread(n, id) ==
    [pc             |-> IF n.exc = "none" THEN "write" ELSE "except",
     entry          |-> Stamp(n.entry, id),
     exc            |-> n.exc,
     file_attempted |-> FALSE,
     file_ok        |-> FALSE,
     store_tried    |-> FALSE,
     committed      |-> {},
     discarded      |-> {}]

T_Begin(s) ==
    /\ phase = "ready"
    /\ Len(threads) < MaxThreads
    /\ uuid_seq' = uuid_seq + 1
    /\ threads' = Append(threads, NewThread(Normalised[s], uuid_seq + 1))
    /\ UNCHANGED <<attrs, file, store, txn, inserts, calls, pending, instances, handlers, files>>

\* where a call goes after self.logger.info(...) of line 139: an error in the
\* handler's emit is taken by logging.Handler.handleError and never reaches
\* the caller
AfterWriteRaising(ok) == IF ok THEN "guard" ELSE "except"
AfterWrite(ok) == "guard"

\* line 139, the append succeeding or failing
T_WriteFile(t, ok) ==
    /\ threads[t].pc = "write"
    /\ file' = IF ok THEN Emit(file, RecordLine(threads[t].entry[1])) ELSE file
    /\ threads' = [threads EXCEPT ![t].pc = AfterWrite(ok),
                                  ![t].exc = IF AfterWrite(ok) = "except" THEN "OSError" ELSE @,
                                  ![t].file_attempted = TRUE,
                                  ![t].file_ok = ok]
    /\ UNCHANGED <<attrs, store, txn, uuid_seq, inserts, calls, pending, instances, handlers, files>>

\* line 142
AfterGuard(avail, conn) ==
    IF avail = "unset" THEN "except"
    ELSE IF StoreGuard(avail, conn) THEN "execute"
    ELSE "done"

T_Guard(t) ==
    /\ threads[t].pc = "guard"
    /\ threads' = [threads EXCEPT ![t].pc = AfterGuard(db_available, db_connection),
                                  ![t].exc = IF db_available = "unset" THEN "AttributeError" ELSE @]
    /\ UNCHANGED <<attrs, file, store, txn, uuid_seq, inserts, calls, pending, instances, handlers, files>>

\* the exception of lines 151-177 on connection state conn/t, "none" if none
ExecuteExc(conn, t, outcome) ==
    IF conn = "closed" THEN "InterfaceError"
    ELSE IF t = "aborted" \/ outcome = "server_error" THEN "DatabaseError"
    ELSE IF outcome = "client_error" THEN "ProgrammingError"
    ELSE "none"

\* the threads whose executed inserts wait in the open transaction
Owners(p) == {p[n].owner : n \in 1..Len(p)}
Rows(p) == [n \in 1..Len(p) |-> p[n].row]

\* lines 151-177: an accepted statement joins the connection's open
\* transaction; a statement the server rejects aborts that transaction and
\* with it every insert waiting in it
Execute(t, exc) ==
    /\ txn' = IF exc = "DatabaseError" THEN "aborted"
              ELSE IF exc = "none" THEN "intrans" ELSE txn
    /\ pending' = IF exc = "DatabaseError" THEN <<>>
                  ELSE IF exc = "none"
                  THEN Append(pending, [owner |-> t, row |-> Row(threads[t].entry[1])])
                  ELSE pending
    /\ inserts' = IF exc = "InterfaceError" THEN inserts ELSE inserts + 1
    /\ threads' = [threads EXCEPT
                      ![t].pc = IF exc = "none" THEN "commit" ELSE "store_except",
                      ![t].store_tried = TRUE,
                      ![t].discarded = IF exc = "DatabaseError"
                                       THEN Owners(pending) \ {t} ELSE @]

T_Execute(t, outcome) ==
    /\ threads[t].pc = "execute"
    /\ Execute(t, ExecuteExc(db_connection, txn, outcome))
    /\ UNCHANGED <<attrs, file, store, uuid_seq, calls, instances, handlers, files>>

\* line 179: commit ends the connection's transaction, whoever's inserts it
\* holds; on an aborted transaction it ends it without storing anything
T_Commit(t) ==
    /\ threads[t].pc = "commit"
    /\ store' = store \o Rows(pending)
    /\ pending' = <<>>
    /\ txn' = "idle"
    /\ threads' = [threads EXCEPT ![t].pc = "done", ![t].committed = Owners(pending)]
    /\ UNCHANGED <<attrs, file, uuid_seq, inserts, calls, instances, handlers, files>>

\* lines 182-183
T_StoreExcept(t) ==
    /\ threads[t].pc = "store_except"
    /\ file' = Emit(file, DiagLine("ERROR", "Database storage failed"))
    /\ threads' = [threads EXCEPT ![t].pc = "done"]
    /\ UNCHANGED <<attrs, store, txn, uuid_seq, inserts, calls, pending, instances, handlers, files>>

\* lines 145-146
T_Except(t) ==
    /\ threads[t].pc = "except"
    /\ file' = Emit(file, DiagLine("ERROR", "Failed to log event"))
    /\ threads' = [threads EXCEPT ![t].pc = "done"]
    /\ UNCHANGED <<attrs, store, txn, uuid_seq, inserts, calls, pending, instances, handlers, files>>

NextThreads ==
    \/ \E cfg \in Configs, setup \in SetupOutcomes : Construct(cfg, setup)
    \/ \E s \in ThreadSubmissions : T_Begin(s)
    \/ \E t \in DOMAIN threads, ok \in BOOLEAN : T_WriteFile(t, ok)
    \/ \E t \in DOMAIN threads : T_Guard(t)
    \/ \E t \in DOMAIN threads :
          \E outcome \in Answers(db_connection # "closed", txn) : T_Execute(t, outcome)
    \/ \E t \in DOMAIN threads : T_Commit(t)
    \/ \E t \in DOMAIN threads : T_StoreExcept(t)
    \/ \E t \in DOMAIN threads : T_Except(t)

SpecThreads == Init /\ [][NextThreads]_vars

-----------------------------------------------------------------------------
(* Several AuditLogger instances in one process.  logging.getLogger
   ('audit_logger') of line 20 returns the same logger object to every
   instance, and every __init__ adds one more FileHandler to it; each
   instance has its own connection, all to the same audit_logs table. *)

\* the submissions made to the instances
InstanceSubmissions == ThreadSubmissions

\* a message handed to the shared logger goes to every handler added so far
RECURSIVE Broadcast(_, _, _)
Broadcast(fs, hs, line) ==
    IF Len(hs) = 0 THEN fs
    ELSE Broadcast([fs EXCEPT ![Head(hs)] = Emit(@, line)], Tail(hs), line)

RECURSIVE BroadcastAll(_, _, _)
BroadcastAll(fs, hs, msgs) ==
    IF Len(msgs) = 0 THEN fs
    ELSE BroadcastAll(Broadcast(fs, hs, Head(msgs)), hs, Tail(msgs))

\* lines 26-35 and 37-81: the attributes of the instance built
NewInstance(path, cfg, setup) ==
    [path          |-> path,
     db_config     |-> cfg,
     db_connection |-> IF cfg = "set" /\ setup # "connect_fail" THEN "open" ELSE "none",
     db_available  |-> IF cfg # "set" THEN "unset"
                       ELSE IF setup = "ok" THEN "true" ELSE "false",
     txn           |-> IF cfg = "set" /\ setup = "schema_fail" THEN "aborted" ELSE "idle"]

\* the message _setup_database logs, if it runs
SetupMessages(cfg, setup) ==
    IF cfg # "set" THEN <<>>
    ELSE IF setup = "ok" THEN <<DiagLine("INFO", "Database setup complete")>>
    ELSE <<DiagLine("WARNING", "Database connection failed, using file logging only")>>

\* __init__: the handler is added at line 32, before _setup_database logs
Construct_I(path, cfg, setup) ==
    /\ Len(instances) < MaxInstances
    /\ handlers' = Append(handlers, path)
    /\ instances' = Append(instances, NewInstance(path, cfg, setup))
    /\ files' = BroadcastAll(files, Append(handlers, path), SetupMessages(cfg, setup))
    /\ connects' = IF cfg = "set" THEN connects + 1 ELSE connects
    /\ UNCHANGED <<phase, db_config, db_connection, db_available, txn, file, store,
                   uuid_seq, inserts, setup_result, calls, closed, threads, pending>>

\* whether this call of instance i gets as far as cursor.execute
WillSend_I(i, s) ==
    /\ Normalised[s].exc = "none"
    /\ instances[i].db_available # "unset"
    /\ StoreGuard(instances[i].db_available, instances[i].db_connection)
    /\ instances[i].db_connection # "closed"

\* the effect of a call of instance i with result r
Record_I(i, s, r) ==
    /\ uuid_seq' = uuid_seq + 1
    /\ files' = BroadcastAll(files, handlers, r.emits)
    /\ store' = store \o r.res.rows
    /\ instances' = [instances EXCEPT ![i].txn = r.res.txn]
    /\ inserts' = IF r.res.executed THEN inserts + 1 ELSE inserts
    /\ calls' = Append(calls,
          [event_type |-> s[1], data |-> s[2], user_id |-> s[3],
           inst      |-> i,
           path      |-> instances[i].path,
           raised    |-> r.raised,
           exc       |-> r.exc,
           conn      |-> instances[i].db_connection,
           store_exc |-> r.res.exc,
           insert    |-> r.res.executed,
           entry     |-> r.entry,
           lines     |-> Len(r.emits)])

LogEvent_I(i, s, outcome) ==
    /\ Len(calls) < MaxCalls
    /\ Record_I(i, s, LogEventResult(Normalised[s], uuid_seq + 1,
                                     instances[i].db_available,
                                     instances[i].db_connection,
                                     instances[i].txn, outcome))
    /\ UNCHANGED <<attrs, txn, file, handlers, threads, pending>>

NextInstances ==
    \/ \E path \in Paths, cfg \in Configs, setup \in SetupOutcomes :
          Construct_I(path, cfg, setup)
    \/ \E i \in DOMAIN instances, s \in InstanceSubmissions :
          \E outcome \in Answers(WillSend_I(i, s), instances[i].txn) :
              LogEvent_I(i, s, outcome)

SpecInstances == Init /\ [][NextInstances]_vars

-----------------------------------------------------------------------------
(* Properties *)

Calls == 1..Len(calls)

\* the calls whose normalisation built an entry (and wrote it to the file)
Logged == {i \in Calls : calls[i].entry # <<>>}

RawMetadata(i) == Get(calls[i].data, "metadata", Dict(<<>>))
RawInput(i) == Get(calls[i].data, "input", NoneV)
RawOutput(i) == Get(calls[i].data, "output", NoneV)
EntryOf(i) == calls[i].entry[1]

\* whether the metadata mapping m has a top-level key of the PII set whose
\* value is not the marker
HoldsClearPii(m) ==
    /\ m.tag = "dict"
    /\ \E n \in 1..Len(m.v) : m.v[n][1] \in pii_fields /\ m.v[n][2] # REDACTED

\* C1: log_event never raises an exception to its caller, whatever the
\* event, the data and the state of the logger (store available, insert
\* failing, store unavailable, no store configured, after close()).
C1_NeverRaises == \A i \in Calls : ~calls[i].raised

\* a call failed inside normalisation and another failed in the store after
\* close(), and both returned normally
C1_Witness ==
    /\ db_connection = "closed"
    /\ \E i, j \in Calls :
          /\ calls[i].exc \in {"AttributeError", "TypeError"}
          /\ calls[j].store_exc = "InterfaceError"
          /\ ~calls[i].raised /\ ~calls[j].raised

\* C2: every log_event call that returns normally adds exactly one line to
\* the file, whatever the state of the store.
C2_OneLinePerCall ==
    /\ \A i \in Calls : ~calls[i].raised => calls[i].lines = 1
    /\ (\A i \in Calls : ~calls[i].raised)
          => Len(file) = Len(calls) + (IF setup_result = "none" THEN 0 ELSE 1)

\* C3: in every record held by the file or the store, every top-level
\* metadata key of the PII set carries the marker '[REDACTED]'.
C3_NoPiiInSinks ==
    /\ \A n \in 1..Len(file) :
          file[n].kind = "record" => ~HoldsClearPii(file[n].entry[1].metadata)
    /\ \A n \in 1..Len(store) : ~HoldsClearPii(store[n].metadata)

\* a record whose submitted metadata held a password in clear is in both sinks
C3_Witness ==
    \E i \in Logged :
        /\ HasKey(RawMetadata(i), "password")
        /\ Lookup(RawMetadata(i), "password") = Str("x")
        /\ \E n \in 1..Len(store) : store[n].log_id = EntryOf(i).log_id
        /\ \E n \in 1..Len(file) : file[n].entry = <<EntryOf(i)>>

\* C4: with no store configuration every log_event of well-formed data runs
\* to the end without an internal exception, emits no failure diagnostic
\* (its record is the one line it writes) and attempts no store write.
C4_FileOnlyIsSilent ==
    db_config = "none" =>
        \A i \in Logged :
            calls[i].exc = "none" /\ calls[i].lines = 1 /\ ~calls[i].insert

\* C5: when the connection or the schema setup failed in the constructor the
\* store is unavailable from then on: no INSERT is ever attempted, nothing is
\* stored and the connection is never retried.
C5_StaysUnavailable ==
    setup_result \in {"connect_fail", "schema_fail"} =>
        /\ db_available = "false"
        /\ inserts = 0
        /\ store = <<>>
        /\ connects = 1
        /\ \A i \in Calls : ~calls[i].insert

\* the schema setup failed, leaving a connection object behind, and two
\* records were logged afterwards
C5_Witness ==
    /\ setup_result = "schema_fail"
    /\ db_connection = "open"
    /\ Cardinality(Logged) >= 2

\* C6: the user_email that load_model and run_inference put in the metadata
\* does not reach the record with its original value.
C6_UserEmailRedacted ==
    \A i \in Logged :
        HasKey(RawMetadata(i), "user_email") =>
            Lookup(EntryOf(i).metadata, "user_email") # Lookup(RawMetadata(i), "user_email")

\* C7: two calls get the same input_hash (output_hash) if and only if their
\* data.input (data.output) are equal, for mappings, sequences and scalars.
C7_HashInjective ==
    \A i, j \in Logged :
        /\ PyEq(RawInput(i), RawInput(j)) <=> (EntryOf(i).input_hash = EntryOf(j).input_hash)
        /\ PyEq(RawOutput(i), RawOutput(j)) <=> (EntryOf(i).output_hash = EntryOf(j).output_hash)

\* C8: equal values get equal hashes, whatever the insertion order of their
\* keys at any depth, and a null value gets no hash at all.
C8_DigestOrderIndependent ==
    /\ \A j \in Logged : \A i \in 1..(j - 1) :
          i \in Logged =>
              /\ PyEq(RawInput(i), RawInput(j)) => EntryOf(i).input_hash = EntryOf(j).input_hash
              /\ PyEq(RawOutput(i), RawOutput(j)) => EntryOf(i).output_hash = EntryOf(j).output_hash
    /\ \A i \in Logged :
          /\ (RawInput(i) = NoneV) <=> (EntryOf(i).input_hash = NoneV)
          /\ (RawOutput(i) = NoneV) <=> (EntryOf(i).output_hash = NoneV)

\* two calls hashed the same mapping built in two orders, at the top level
\* and one level down
C8_Witness ==
    \E i, j \in Logged :
        /\ RawInput(i).tag = "dict"
        /\ RawInput(i) # RawInput(j)
        /\ PyEq(RawInput(i), RawInput(j))
        /\ HasKey(RawInput(i), "o")
        /\ Lookup(RawInput(i), "o") # Lookup(RawInput(j), "o")

\* C9: pii_redacted is true exactly when the submitted metadata held a PII
\* key whose value was not already the marker.
C9_PiiRedactedFlag ==
    \A i \in Logged :
        EntryOf(i).pii_redacted <=> HoldsClearPii(RawMetadata(i))

\* one call redacted a password, another found the marker already in place
C9_Witness ==
    \E i, j \in Logged :
        /\ EntryOf(i).pii_redacted
        /\ HasKey(RawMetadata(j), "password")
        /\ Lookup(RawMetadata(j), "password") = REDACTED
        /\ ~EntryOf(j).pii_redacted

\* C10: every line of the audit file is a canonical record; no diagnostic is
\* ever written to it.
C10_FileHoldsOnlyRecords == \A n \in 1..Len(file) : file[n].kind = "record"

\* C11: the instance has at most one live store connection: it is opened by
\* the constructor only, close() leaves none open whatever happened before,
\* and nothing opens one again.
C11_OneConnection ==
    /\ connects <= 1
    /\ db_connection = "open" => connects = 1 /\ ~closed
    /\ closed => db_connection # "open"

\* close() released a connection on which an insert had failed earlier, and a
\* later call found it released
C11_Witness ==
    /\ closed
    /\ db_connection = "closed"
    /\ \E i, j \in Calls :
          /\ i < j
          /\ calls[i].store_exc = "DatabaseError"
          /\ calls[j].conn = "closed"

\* C12: after close() has returned nothing is appended through the file
\* handle opened at construction.
C12_FileHandleReleased == [][closed => file' = file]_vars

\* whether call i got as far as _store_in_database
StoreTried(i) == calls[i].insert \/ calls[i].store_exc # "none"

\* the exceptions a rejected INSERT raises
InsertErrors == {"DatabaseError", "ProgrammingError"}

\* C13: a failed insert is attempted once, leaves the store marked available
\* and does not stop the next call from attempting its own insert.
C13_FailedInsertNotEscalated ==
    /\ inserts = Cardinality({i \in Calls : calls[i].insert})
    /\ \A i \in Calls :
          calls[i].store_exc \in InsertErrors =>
              /\ calls[i].insert
              /\ db_available = "true"
              /\ (i + 1 \in Logged /\ calls[i + 1].conn = "open") => calls[i + 1].insert

\* an insert failed on the server and the next call sent its own insert
C13_Witness ==
    \E i \in Calls :
        /\ calls[i].store_exc = "DatabaseError"
        /\ i + 1 \in Logged
        /\ calls[i + 1].insert

\* C16: every stored row equals, field by field, the entry of the file line
\* with the same log_id, empty metadata and gpu_usage included.
C16_SameRecordInBothSinks ==
    \A n \in 1..Len(store) :
        \E m \in 1..Len(file) :
            /\ file[m].kind = "record"
            /\ file[m].entry[1].log_id = store[n].log_id
            /\ file[m].entry[1] = store[n]

\* the fields of `data` that log_event reads, all optional
OptionalFields == {"metadata", "input", "output", "inference_id", "model_name",
                   "status", "duration_ms", "gpu_usage", "ip_address", "user_agent"}

\* a mapping whose optional fields, where present, hold well-formed values
WellFormed(data) ==
    /\ data.tag = "dict"
    /\ \A k \in OptionalFields : HasKey(data, k) => Serialisable(Lookup(data, k))
    /\ HasKey(data, "metadata") => Lookup(data, "metadata").tag = "dict"

\* C17: a call whose data lacks optional fields writes one record with those
\* fields absent, empty metadata and pii_redacted false for absent metadata,
\* and runs into no internal exception.
C17_MissingFieldsAreNoError ==
    \A i \in Calls :
        (WellFormed(calls[i].data) /\ Serialisable(calls[i].event_type)) =>
            /\ i \in Logged
            /\ calls[i].exc = "none"
            /\ \A k \in OptionalFields \ {"metadata", "input", "output"} :
                  ~HasKey(calls[i].data, k) => EntryOf(i)[k] = NoneV
            /\ ~HasKey(calls[i].data, "input") => EntryOf(i).input_hash = NoneV
            /\ ~HasKey(calls[i].data, "output") => EntryOf(i).output_hash = NoneV
            /\ ~HasKey(calls[i].data, "metadata") =>
                  EntryOf(i).metadata = Dict(<<>>) /\ ~EntryOf(i).pii_redacted

\* C18: a failed insert does not leave the connection of an available store
\* in an aborted transaction, so the database can still accept a later insert.
C18_FailureLeavesConnectionUsable ==
    (db_available = "true" /\ db_connection = "open") =>
        /\ txn = "idle"
        /\ "ok" \in Answers(TRUE, txn)

\* C20: a log_event that finds the connection closed does not go to the store.
C20_NoStoreAttemptAfterClose ==
    \A i \in Calls : calls[i].conn = "closed" => ~StoreTried(i)

\* the threads that have executed their insert and not yet committed it
InFlight == {t \in DOMAIN threads : threads[t].pc = "commit"}

\* C14: a store insert is attempted only after the file write of the same
\* record was attempted, and is attempted whatever that write's outcome when
\* the store is available.
C14_FileBeforeStore ==
    \A t \in DOMAIN threads :
        /\ threads[t].store_tried => threads[t].file_attempted
        /\ (/\ threads[t].pc = "done"
            /\ threads[t].file_attempted
            /\ db_available = "true"
            /\ db_connection # "none") => threads[t].store_tried

\* a call whose file write failed went on to try the store
C14_Witness ==
    \E t \in DOMAIN threads :
        /\ threads[t].file_attempted
        /\ ~threads[t].file_ok
        /\ threads[t].store_tried

\* C15: with concurrent callers at most one insert is between execute and
\* commit on the shared connection, and no call's commit or failure commits
\* or discards the insert of another call.
C15_OneStatementInFlight ==
    /\ Cardinality(InFlight) <= 1
    /\ \A t \in DOMAIN threads :
          /\ threads[t].committed \subseteq {t}
          /\ threads[t].discarded = {}

\* the record lines of file p that carry log_id id
LinesOf(p, id) ==
    {n \in 1..Len(files[p]) :
        files[p][n].kind = "record" /\ files[p][n].entry[1].log_id = id}

\* C19: with several instances in one process, the line of a log_event is
\* appended exactly once to the file of the instance it was called on and to
\* no other file.
C19_InstancesIsolated ==
    \A i \in Logged :
        \A p \in Paths :
            Cardinality(LinesOf(p, EntryOf(i).log_id)) = IF p = calls[i].path THEN 1 ELSE 0

====
